---- MODULE Spec2Model ----
(***************************************************************************)
(* Model of src/transliterator.py: class Transliterate, the Cyrillic to    *)
(* Latin transliteration engine (Estonian rules).                          *)
(*                                                                         *)
(* A character is its Unicode code point; a Python str is a sequence of    *)
(* code points.  Indices into words are zero-based, as in the source       *)
(* (At(word, i) is Python's word[i]).                                      *)
(***************************************************************************)
EXTENDS Integers, Sequences, FiniteSets, TLC

(***************************************************************************)
(* Code points of the characters the source names.                         *)
(* CYR: uppercase Cyrillic, cyr: lowercase Cyrillic (same field names).    *)
(*   a be ve ge de ie io zhe ze i j(short i) ka el em en o pe er es te u   *)
(*   ef ha tse che sha shcha hard yeru soft e(reversed) yu ya              *)
(***************************************************************************)
CYR == [a |-> 1040, be |-> 1041, ve |-> 1042, ge |-> 1043, de |-> 1044,
        ie |-> 1045, io |-> 1025, zhe |-> 1046, ze |-> 1047, i |-> 1048,
        j |-> 1049, ka |-> 1050, el |-> 1051, em |-> 1052, en |-> 1053,
        o |-> 1054, pe |-> 1055, er |-> 1056, es |-> 1057, te |-> 1058,
        u |-> 1059, ef |-> 1060, ha |-> 1061, tse |-> 1062, che |-> 1063,
        sha |-> 1064, shcha |-> 1065, hard |-> 1066, yeru |-> 1067,
        soft |-> 1068, e |-> 1069, yu |-> 1070, ya |-> 1071]

cyr == [a |-> 1072, be |-> 1073, ve |-> 1074, ge |-> 1075, de |-> 1076,
        ie |-> 1077, io |-> 1105, zhe |-> 1078, ze |-> 1079, i |-> 1080,
        j |-> 1081, ka |-> 1082, el |-> 1083, em |-> 1084, en |-> 1085,
        o |-> 1086, pe |-> 1087, er |-> 1088, es |-> 1089, te |-> 1090,
        u |-> 1091, ef |-> 1092, ha |-> 1093, tse |-> 1094, che |-> 1095,
        sha |-> 1096, shcha |-> 1097, hard |-> 1098, yeru |-> 1099,
        soft |-> 1100, e |-> 1101, yu |-> 1102, ya |-> 1103]

(* Latin letters of the outputs; scaron/zcaron/otilde are the letters with *)
(* diacritics, idot is U+0130 (capital I with dot above) and dotabove the  *)
(* combining dot U+0307 its lowercase form carries.                        *)
LAT == [a |-> 65, b |-> 66, d |-> 68, e |-> 69, f |-> 70, g |-> 71, h |-> 72,
        i |-> 73, j |-> 74, k |-> 75, l |-> 76, m |-> 77, n |-> 78, o |-> 79,
        p |-> 80, r |-> 82, s |-> 83, t |-> 84, u |-> 85, v |-> 86, z |-> 90,
        scaron |-> 352, zcaron |-> 381, idot |-> 304]

lat == [a |-> 97, b |-> 98, d |-> 100, e |-> 101, f |-> 102, g |-> 103,
        h |-> 104, i |-> 105, j |-> 106, k |-> 107, l |-> 108, m |-> 109,
        n |-> 110, o |-> 111, p |-> 112, r |-> 114, s |-> 115, t |-> 116,
        u |-> 117, v |-> 118, z |-> 122,
        scaron |-> 353, zcaron |-> 382, otilde |-> 245, dotabove |-> 775]

SPACE == <<32>>

(***************************************************************************)
(* Python values that are not strings.                                     *)
(***************************************************************************)
\* the value a function returns when it falls off its end
PyNone == <<-2>>
\* the outcome of indexing a str out of range
IndexError == <<-1>>
\* a list entry that is not a str and has no split method (an int, None, a
\* float, a list)
NonString == <<-3>>
\* a bytes or bytearray entry: it has split, and split(' ') raises TypeError
BytesLike == <<-4>>
\* an entry that is not a str but has a split method returning a list of
\* strs: the object whose split(' ') returns what s.split(' ') does
Duck(s) == <<-5>> \o s

\* IsStr changed: every entry is taken for a str (as if str(entry) were split)
IsStr_anything(v) == TRUE

IsStr(v) == \A k \in 1..Len(v) : v[k] >= 0

\* the exception sentence.split(' ') raises at line 34, "none" when it returns
split_raises(entry) ==
    IF IsStr(entry) THEN "none"
    ELSE IF entry = NonString THEN "AttributeError"
    ELSE IF entry = BytesLike THEN "TypeError"
    ELSE "none"

(***************************************************************************)
(* str.isupper() and str.lower(), for every code point (Unicode 14.0.0,    *)
(* the character database of the interpreter).  A run <<lo, hi, step>> is  *)
(* the code points lo, lo + step, ... up to hi; a run of LowerRuns carries *)
(* as fourth component what lower() adds to each of its code points.       *)
(***************************************************************************)
InRuns(c, runs) ==
    \E r \in runs : c >= r[1] /\ c <= r[2] /\ (c - r[1]) % r[3] = 0

\* the code points c with chr(c).isupper()
UpperRuns == {
    <<65, 90, 1>>, <<192, 214, 1>>, <<216, 222, 1>>, <<256, 310, 2>>,
    <<313, 327, 2>>, <<330, 376, 2>>, <<377, 381, 2>>, <<385, 386, 1>>,
    <<388, 390, 2>>, <<391, 393, 2>>, <<394, 395, 1>>, <<398, 401, 1>>,
    <<403, 404, 1>>, <<406, 408, 1>>, <<412, 413, 1>>, <<415, 416, 1>>,
    <<418, 422, 2>>, <<423, 425, 2>>, <<428, 430, 2>>, <<431, 433, 2>>,
    <<434, 435, 1>>, <<437, 439, 2>>, <<440, 440, 1>>, <<444, 444, 1>>,
    <<452, 452, 1>>, <<455, 455, 1>>, <<458, 458, 1>>, <<461, 475, 2>>,
    <<478, 494, 2>>, <<497, 497, 1>>, <<500, 502, 2>>, <<503, 504, 1>>,
    <<506, 562, 2>>, <<570, 571, 1>>, <<573, 574, 1>>, <<577, 579, 2>>,
    <<580, 582, 1>>, <<584, 590, 2>>, <<880, 882, 2>>, <<886, 886, 1>>,
    <<895, 895, 1>>, <<902, 904, 2>>, <<905, 906, 1>>, <<908, 910, 2>>,
    <<911, 913, 2>>, <<914, 929, 1>>, <<931, 939, 1>>, <<975, 975, 1>>,
    <<978, 980, 1>>, <<984, 1006, 2>>, <<1012, 1012, 1>>, <<1015, 1017, 2>>,
    <<1018, 1018, 1>>, <<1021, 1071, 1>>, <<1120, 1152, 2>>,
    <<1162, 1216, 2>>, <<1217, 1229, 2>>, <<1232, 1326, 2>>,
    <<1329, 1366, 1>>, <<4256, 4293, 1>>, <<4295, 4295, 1>>,
    <<4301, 4301, 1>>, <<5024, 5109, 1>>, <<7312, 7354, 1>>,
    <<7357, 7359, 1>>, <<7680, 7828, 2>>, <<7838, 7934, 2>>,
    <<7944, 7951, 1>>, <<7960, 7965, 1>>, <<7976, 7983, 1>>,
    <<7992, 7999, 1>>, <<8008, 8013, 1>>, <<8025, 8031, 2>>,
    <<8040, 8047, 1>>, <<8120, 8123, 1>>, <<8136, 8139, 1>>,
    <<8152, 8155, 1>>, <<8168, 8172, 1>>, <<8184, 8187, 1>>,
    <<8450, 8450, 1>>, <<8455, 8455, 1>>, <<8459, 8461, 1>>,
    <<8464, 8466, 1>>, <<8469, 8469, 1>>, <<8473, 8477, 1>>,
    <<8484, 8490, 2>>, <<8491, 8493, 1>>, <<8496, 8499, 1>>,
    <<8510, 8511, 1>>, <<8517, 8517, 1>>, <<8544, 8559, 1>>,
    <<8579, 8579, 1>>, <<9398, 9423, 1>>, <<11264, 11311, 1>>,
    <<11360, 11362, 2>>, <<11363, 11364, 1>>, <<11367, 11373, 2>>,
    <<11374, 11376, 1>>, <<11378, 11378, 1>>, <<11381, 11381, 1>>,
    <<11390, 11392, 1>>, <<11394, 11490, 2>>, <<11499, 11501, 2>>,
    <<11506, 11506, 1>>, <<42560, 42604, 2>>, <<42624, 42650, 2>>,
    <<42786, 42798, 2>>, <<42802, 42862, 2>>, <<42873, 42877, 2>>,
    <<42878, 42886, 2>>, <<42891, 42893, 2>>, <<42896, 42898, 2>>,
    <<42902, 42922, 2>>, <<42923, 42926, 1>>, <<42928, 42932, 1>>,
    <<42934, 42948, 2>>, <<42949, 42951, 1>>, <<42953, 42953, 1>>,
    <<42960, 42960, 1>>, <<42966, 42968, 2>>, <<42997, 42997, 1>>,
    <<65313, 65338, 1>>, <<66560, 66599, 1>>, <<66736, 66771, 1>>,
    <<66928, 66938, 1>>, <<66940, 66954, 1>>, <<66956, 66962, 1>>,
    <<66964, 66965, 1>>, <<68736, 68786, 1>>, <<71840, 71871, 1>>,
    <<93760, 93791, 1>>, <<119808, 119833, 1>>, <<119860, 119885, 1>>,
    <<119912, 119937, 1>>, <<119964, 119966, 2>>, <<119967, 119967, 1>>,
    <<119970, 119970, 1>>, <<119973, 119974, 1>>, <<119977, 119980, 1>>,
    <<119982, 119989, 1>>, <<120016, 120041, 1>>, <<120068, 120069, 1>>,
    <<120071, 120074, 1>>, <<120077, 120084, 1>>, <<120086, 120092, 1>>,
    <<120120, 120121, 1>>, <<120123, 120126, 1>>, <<120128, 120132, 1>>,
    <<120134, 120134, 1>>, <<120138, 120144, 1>>, <<120172, 120197, 1>>,
    <<120224, 120249, 1>>, <<120276, 120301, 1>>, <<120328, 120353, 1>>,
    <<120380, 120405, 1>>, <<120432, 120457, 1>>, <<120488, 120512, 1>>,
    <<120546, 120570, 1>>, <<120604, 120628, 1>>, <<120662, 120686, 1>>,
    <<120720, 120744, 1>>, <<120778, 120778, 1>>, <<125184, 125217, 1>>,
    <<127280, 127305, 1>>, <<127312, 127337, 1>>, <<127344, 127369, 1>>}

\* the code points that lower() changes, each run with its offset
LowerRuns == {
    <<65, 90, 1, 32>>, <<192, 214, 1, 32>>, <<216, 222, 1, 32>>,
    <<256, 302, 2, 1>>, <<306, 310, 2, 1>>, <<313, 327, 2, 1>>,
    <<330, 374, 2, 1>>, <<376, 376, 1, -121>>, <<377, 381, 2, 1>>,
    <<385, 385, 1, 210>>, <<386, 388, 2, 1>>, <<390, 390, 1, 206>>,
    <<391, 391, 1, 1>>, <<393, 394, 1, 205>>, <<395, 395, 1, 1>>,
    <<398, 398, 1, 79>>, <<399, 399, 1, 202>>, <<400, 400, 1, 203>>,
    <<401, 401, 1, 1>>, <<403, 403, 1, 205>>, <<404, 404, 1, 207>>,
    <<406, 406, 1, 211>>, <<407, 407, 1, 209>>, <<408, 408, 1, 1>>,
    <<412, 412, 1, 211>>, <<413, 413, 1, 213>>, <<415, 415, 1, 214>>,
    <<416, 420, 2, 1>>, <<422, 422, 1, 218>>, <<423, 423, 1, 1>>,
    <<425, 425, 1, 218>>, <<428, 428, 1, 1>>, <<430, 430, 1, 218>>,
    <<431, 431, 1, 1>>, <<433, 434, 1, 217>>, <<435, 437, 2, 1>>,
    <<439, 439, 1, 219>>, <<440, 440, 1, 1>>, <<444, 444, 1, 1>>,
    <<452, 452, 1, 2>>, <<453, 453, 1, 1>>, <<455, 455, 1, 2>>,
    <<456, 456, 1, 1>>, <<458, 458, 1, 2>>, <<459, 475, 2, 1>>,
    <<478, 494, 2, 1>>, <<497, 497, 1, 2>>, <<498, 500, 2, 1>>,
    <<502, 502, 1, -97>>, <<503, 503, 1, -56>>, <<504, 542, 2, 1>>,
    <<544, 544, 1, -130>>, <<546, 562, 2, 1>>, <<570, 570, 1, 10795>>,
    <<571, 571, 1, 1>>, <<573, 573, 1, -163>>, <<574, 574, 1, 10792>>,
    <<577, 577, 1, 1>>, <<579, 579, 1, -195>>, <<580, 580, 1, 69>>,
    <<581, 581, 1, 71>>, <<582, 590, 2, 1>>, <<880, 882, 2, 1>>,
    <<886, 886, 1, 1>>, <<895, 895, 1, 116>>, <<902, 902, 1, 38>>,
    <<904, 906, 1, 37>>, <<908, 908, 1, 64>>, <<910, 911, 1, 63>>,
    <<913, 929, 1, 32>>, <<931, 939, 1, 32>>, <<975, 975, 1, 8>>,
    <<984, 1006, 2, 1>>, <<1012, 1012, 1, -60>>, <<1015, 1015, 1, 1>>,
    <<1017, 1017, 1, -7>>, <<1018, 1018, 1, 1>>, <<1021, 1023, 1, -130>>,
    <<1024, 1039, 1, 80>>, <<1040, 1071, 1, 32>>, <<1120, 1152, 2, 1>>,
    <<1162, 1214, 2, 1>>, <<1216, 1216, 1, 15>>, <<1217, 1229, 2, 1>>,
    <<1232, 1326, 2, 1>>, <<1329, 1366, 1, 48>>, <<4256, 4293, 1, 7264>>,
    <<4295, 4295, 1, 7264>>, <<4301, 4301, 1, 7264>>,
    <<5024, 5103, 1, 38864>>, <<5104, 5109, 1, 8>>, <<7312, 7354, 1, -3008>>,
    <<7357, 7359, 1, -3008>>, <<7680, 7828, 2, 1>>, <<7838, 7838, 1, -7615>>,
    <<7840, 7934, 2, 1>>, <<7944, 7951, 1, -8>>, <<7960, 7965, 1, -8>>,
    <<7976, 7983, 1, -8>>, <<7992, 7999, 1, -8>>, <<8008, 8013, 1, -8>>,
    <<8025, 8031, 2, -8>>, <<8040, 8047, 1, -8>>, <<8072, 8079, 1, -8>>,
    <<8088, 8095, 1, -8>>, <<8104, 8111, 1, -8>>, <<8120, 8121, 1, -8>>,
    <<8122, 8123, 1, -74>>, <<8124, 8124, 1, -9>>, <<8136, 8139, 1, -86>>,
    <<8140, 8140, 1, -9>>, <<8152, 8153, 1, -8>>, <<8154, 8155, 1, -100>>,
    <<8168, 8169, 1, -8>>, <<8170, 8171, 1, -112>>, <<8172, 8172, 1, -7>>,
    <<8184, 8185, 1, -128>>, <<8186, 8187, 1, -126>>, <<8188, 8188, 1, -9>>,
    <<8486, 8486, 1, -7517>>, <<8490, 8490, 1, -8383>>,
    <<8491, 8491, 1, -8262>>, <<8498, 8498, 1, 28>>, <<8544, 8559, 1, 16>>,
    <<8579, 8579, 1, 1>>, <<9398, 9423, 1, 26>>, <<11264, 11311, 1, 48>>,
    <<11360, 11360, 1, 1>>, <<11362, 11362, 1, -10743>>,
    <<11363, 11363, 1, -3814>>, <<11364, 11364, 1, -10727>>,
    <<11367, 11371, 2, 1>>, <<11373, 11373, 1, -10780>>,
    <<11374, 11374, 1, -10749>>, <<11375, 11375, 1, -10783>>,
    <<11376, 11376, 1, -10782>>, <<11378, 11378, 1, 1>>,
    <<11381, 11381, 1, 1>>, <<11390, 11391, 1, -10815>>,
    <<11392, 11490, 2, 1>>, <<11499, 11501, 2, 1>>, <<11506, 11506, 1, 1>>,
    <<42560, 42604, 2, 1>>, <<42624, 42650, 2, 1>>, <<42786, 42798, 2, 1>>,
    <<42802, 42862, 2, 1>>, <<42873, 42875, 2, 1>>,
    <<42877, 42877, 1, -35332>>, <<42878, 42886, 2, 1>>,
    <<42891, 42891, 1, 1>>, <<42893, 42893, 1, -42280>>,
    <<42896, 42898, 2, 1>>, <<42902, 42920, 2, 1>>,
    <<42922, 42922, 1, -42308>>, <<42923, 42923, 1, -42319>>,
    <<42924, 42924, 1, -42315>>, <<42925, 42925, 1, -42305>>,
    <<42926, 42926, 1, -42308>>, <<42928, 42928, 1, -42258>>,
    <<42929, 42929, 1, -42282>>, <<42930, 42930, 1, -42261>>,
    <<42931, 42931, 1, 928>>, <<42932, 42946, 2, 1>>,
    <<42948, 42948, 1, -48>>, <<42949, 42949, 1, -42307>>,
    <<42950, 42950, 1, -35384>>, <<42951, 42953, 2, 1>>,
    <<42960, 42960, 1, 1>>, <<42966, 42968, 2, 1>>, <<42997, 42997, 1, 1>>,
    <<65313, 65338, 1, 32>>, <<66560, 66599, 1, 40>>,
    <<66736, 66771, 1, 40>>, <<66928, 66938, 1, 39>>,
    <<66940, 66954, 1, 39>>, <<66956, 66962, 1, 39>>,
    <<66964, 66965, 1, 39>>, <<68736, 68786, 1, 64>>,
    <<71840, 71871, 1, 32>>, <<93760, 93791, 1, 32>>,
    <<125184, 125217, 1, 34>>}

\* the cased code points that are not case-ignorable (for the final sigma)
CasedRuns == {
    <<65, 90, 1>>, <<97, 122, 1>>, <<170, 170, 1>>, <<181, 181, 1>>,
    <<186, 186, 1>>, <<192, 214, 1>>, <<216, 246, 1>>, <<248, 442, 1>>,
    <<444, 447, 1>>, <<452, 659, 1>>, <<661, 687, 1>>, <<880, 883, 1>>,
    <<886, 887, 1>>, <<891, 893, 1>>, <<895, 895, 1>>, <<902, 904, 2>>,
    <<905, 906, 1>>, <<908, 910, 2>>, <<911, 929, 1>>, <<931, 1013, 1>>,
    <<1015, 1153, 1>>, <<1162, 1327, 1>>, <<1329, 1366, 1>>,
    <<1376, 1416, 1>>, <<4256, 4293, 1>>, <<4295, 4295, 1>>,
    <<4301, 4301, 1>>, <<4304, 4346, 1>>, <<4349, 4351, 1>>,
    <<5024, 5109, 1>>, <<5112, 5117, 1>>, <<7296, 7304, 1>>,
    <<7312, 7354, 1>>, <<7357, 7359, 1>>, <<7424, 7467, 1>>,
    <<7531, 7543, 1>>, <<7545, 7578, 1>>, <<7680, 7957, 1>>,
    <<7960, 7965, 1>>, <<7968, 8005, 1>>, <<8008, 8013, 1>>,
    <<8016, 8023, 1>>, <<8025, 8031, 2>>, <<8032, 8061, 1>>,
    <<8064, 8116, 1>>, <<8118, 8124, 1>>, <<8126, 8126, 1>>,
    <<8130, 8132, 1>>, <<8134, 8140, 1>>, <<8144, 8147, 1>>,
    <<8150, 8155, 1>>, <<8160, 8172, 1>>, <<8178, 8180, 1>>,
    <<8182, 8188, 1>>, <<8450, 8450, 1>>, <<8455, 8455, 1>>,
    <<8458, 8467, 1>>, <<8469, 8469, 1>>, <<8473, 8477, 1>>,
    <<8484, 8490, 2>>, <<8491, 8493, 1>>, <<8495, 8500, 1>>,
    <<8505, 8505, 1>>, <<8508, 8511, 1>>, <<8517, 8521, 1>>,
    <<8526, 8526, 1>>, <<8544, 8575, 1>>, <<8579, 8580, 1>>,
    <<9398, 9449, 1>>, <<11264, 11387, 1>>, <<11390, 11492, 1>>,
    <<11499, 11502, 1>>, <<11506, 11507, 1>>, <<11520, 11557, 1>>,
    <<11559, 11559, 1>>, <<11565, 11565, 1>>, <<42560, 42605, 1>>,
    <<42624, 42651, 1>>, <<42786, 42863, 1>>, <<42865, 42887, 1>>,
    <<42891, 42894, 1>>, <<42896, 42954, 1>>, <<42960, 42961, 1>>,
    <<42963, 42965, 2>>, <<42966, 42969, 1>>, <<42997, 42998, 1>>,
    <<43002, 43002, 1>>, <<43824, 43866, 1>>, <<43872, 43880, 1>>,
    <<43888, 43967, 1>>, <<64256, 64262, 1>>, <<64275, 64279, 1>>,
    <<65313, 65338, 1>>, <<65345, 65370, 1>>, <<66560, 66639, 1>>,
    <<66736, 66771, 1>>, <<66776, 66811, 1>>, <<66928, 66938, 1>>,
    <<66940, 66954, 1>>, <<66956, 66962, 1>>, <<66964, 66965, 1>>,
    <<66967, 66977, 1>>, <<66979, 66993, 1>>, <<66995, 67001, 1>>,
    <<67003, 67004, 1>>, <<68736, 68786, 1>>, <<68800, 68850, 1>>,
    <<71840, 71903, 1>>, <<93760, 93823, 1>>, <<119808, 119892, 1>>,
    <<119894, 119964, 1>>, <<119966, 119967, 1>>, <<119970, 119970, 1>>,
    <<119973, 119974, 1>>, <<119977, 119980, 1>>, <<119982, 119993, 1>>,
    <<119995, 119997, 2>>, <<119998, 120003, 1>>, <<120005, 120069, 1>>,
    <<120071, 120074, 1>>, <<120077, 120084, 1>>, <<120086, 120092, 1>>,
    <<120094, 120121, 1>>, <<120123, 120126, 1>>, <<120128, 120132, 1>>,
    <<120134, 120134, 1>>, <<120138, 120144, 1>>, <<120146, 120485, 1>>,
    <<120488, 120512, 1>>, <<120514, 120538, 1>>, <<120540, 120570, 1>>,
    <<120572, 120596, 1>>, <<120598, 120628, 1>>, <<120630, 120654, 1>>,
    <<120656, 120686, 1>>, <<120688, 120712, 1>>, <<120714, 120744, 1>>,
    <<120746, 120770, 1>>, <<120772, 120779, 1>>, <<122624, 122633, 1>>,
    <<122635, 122654, 1>>, <<125184, 125251, 1>>, <<127280, 127305, 1>>,
    <<127312, 127337, 1>>, <<127344, 127369, 1>>}

\* the case-ignorable code points (for the final sigma)
CaseIgnorableRuns == {
    <<39, 39, 1>>, <<46, 46, 1>>, <<58, 58, 1>>, <<94, 96, 2>>,
    <<168, 168, 1>>, <<173, 175, 2>>, <<180, 180, 1>>, <<183, 184, 1>>,
    <<688, 879, 1>>, <<884, 885, 1>>, <<890, 890, 1>>, <<900, 901, 1>>,
    <<903, 903, 1>>, <<1155, 1161, 1>>, <<1369, 1369, 1>>, <<1375, 1375, 1>>,
    <<1425, 1469, 1>>, <<1471, 1473, 2>>, <<1474, 1476, 2>>,
    <<1477, 1479, 2>>, <<1524, 1524, 1>>, <<1536, 1541, 1>>,
    <<1552, 1562, 1>>, <<1564, 1564, 1>>, <<1600, 1600, 1>>,
    <<1611, 1631, 1>>, <<1648, 1648, 1>>, <<1750, 1757, 1>>,
    <<1759, 1768, 1>>, <<1770, 1773, 1>>, <<1807, 1809, 2>>,
    <<1840, 1866, 1>>, <<1958, 1968, 1>>, <<2027, 2037, 1>>,
    <<2042, 2042, 1>>, <<2045, 2045, 1>>, <<2070, 2093, 1>>,
    <<2137, 2139, 1>>, <<2184, 2184, 1>>, <<2192, 2193, 1>>,
    <<2200, 2207, 1>>, <<2249, 2306, 1>>, <<2362, 2364, 2>>,
    <<2369, 2376, 1>>, <<2381, 2381, 1>>, <<2385, 2391, 1>>,
    <<2402, 2403, 1>>, <<2417, 2417, 1>>, <<2433, 2433, 1>>,
    <<2492, 2492, 1>>, <<2497, 2500, 1>>, <<2509, 2509, 1>>,
    <<2530, 2531, 1>>, <<2558, 2558, 1>>, <<2561, 2562, 1>>,
    <<2620, 2620, 1>>, <<2625, 2626, 1>>, <<2631, 2632, 1>>,
    <<2635, 2637, 1>>, <<2641, 2641, 1>>, <<2672, 2673, 1>>,
    <<2677, 2677, 1>>, <<2689, 2690, 1>>, <<2748, 2748, 1>>,
    <<2753, 2757, 1>>, <<2759, 2760, 1>>, <<2765, 2765, 1>>,
    <<2786, 2787, 1>>, <<2810, 2815, 1>>, <<2817, 2817, 1>>,
    <<2876, 2876, 1>>, <<2879, 2881, 2>>, <<2882, 2884, 1>>,
    <<2893, 2893, 1>>, <<2901, 2902, 1>>, <<2914, 2915, 1>>,
    <<2946, 2946, 1>>, <<3008, 3008, 1>>, <<3021, 3021, 1>>,
    <<3072, 3072, 1>>, <<3076, 3076, 1>>, <<3132, 3134, 2>>,
    <<3135, 3136, 1>>, <<3142, 3144, 1>>, <<3146, 3149, 1>>,
    <<3157, 3158, 1>>, <<3170, 3171, 1>>, <<3201, 3201, 1>>,
    <<3260, 3260, 1>>, <<3263, 3263, 1>>, <<3270, 3270, 1>>,
    <<3276, 3277, 1>>, <<3298, 3299, 1>>, <<3328, 3329, 1>>,
    <<3387, 3388, 1>>, <<3393, 3396, 1>>, <<3405, 3405, 1>>,
    <<3426, 3427, 1>>, <<3457, 3457, 1>>, <<3530, 3530, 1>>,
    <<3538, 3540, 1>>, <<3542, 3542, 1>>, <<3633, 3633, 1>>,
    <<3636, 3642, 1>>, <<3654, 3662, 1>>, <<3761, 3761, 1>>,
    <<3764, 3772, 1>>, <<3782, 3784, 2>>, <<3785, 3789, 1>>,
    <<3864, 3865, 1>>, <<3893, 3897, 2>>, <<3953, 3966, 1>>,
    <<3968, 3972, 1>>, <<3974, 3975, 1>>, <<3981, 3991, 1>>,
    <<3993, 4028, 1>>, <<4038, 4038, 1>>, <<4141, 4144, 1>>,
    <<4146, 4151, 1>>, <<4153, 4154, 1>>, <<4157, 4158, 1>>,
    <<4184, 4185, 1>>, <<4190, 4192, 1>>, <<4209, 4212, 1>>,
    <<4226, 4226, 1>>, <<4229, 4230, 1>>, <<4237, 4237, 1>>,
    <<4253, 4253, 1>>, <<4348, 4348, 1>>, <<4957, 4959, 1>>,
    <<5906, 5908, 1>>, <<5938, 5939, 1>>, <<5970, 5971, 1>>,
    <<6002, 6003, 1>>, <<6068, 6069, 1>>, <<6071, 6077, 1>>,
    <<6086, 6086, 1>>, <<6089, 6099, 1>>, <<6103, 6103, 1>>,
    <<6109, 6109, 1>>, <<6155, 6159, 1>>, <<6211, 6211, 1>>,
    <<6277, 6278, 1>>, <<6313, 6313, 1>>, <<6432, 6434, 1>>,
    <<6439, 6440, 1>>, <<6450, 6450, 1>>, <<6457, 6459, 1>>,
    <<6679, 6680, 1>>, <<6683, 6683, 1>>, <<6742, 6744, 2>>,
    <<6745, 6750, 1>>, <<6752, 6754, 2>>, <<6757, 6764, 1>>,
    <<6771, 6780, 1>>, <<6783, 6783, 1>>, <<6823, 6823, 1>>,
    <<6832, 6862, 1>>, <<6912, 6915, 1>>, <<6964, 6966, 2>>,
    <<6967, 6970, 1>>, <<6972, 6972, 1>>, <<6978, 6978, 1>>,
    <<7019, 7027, 1>>, <<7040, 7041, 1>>, <<7074, 7077, 1>>,
    <<7080, 7081, 1>>, <<7083, 7085, 1>>, <<7142, 7144, 2>>,
    <<7145, 7145, 1>>, <<7149, 7151, 2>>, <<7152, 7153, 1>>,
    <<7212, 7219, 1>>, <<7222, 7223, 1>>, <<7288, 7293, 1>>,
    <<7376, 7378, 1>>, <<7380, 7392, 1>>, <<7394, 7400, 1>>,
    <<7405, 7405, 1>>, <<7412, 7412, 1>>, <<7416, 7417, 1>>,
    <<7468, 7530, 1>>, <<7544, 7544, 1>>, <<7579, 7679, 1>>,
    <<8125, 8127, 2>>, <<8128, 8129, 1>>, <<8141, 8143, 1>>,
    <<8157, 8159, 1>>, <<8173, 8175, 1>>, <<8189, 8190, 1>>,
    <<8203, 8207, 1>>, <<8216, 8217, 1>>, <<8228, 8228, 1>>,
    <<8231, 8231, 1>>, <<8234, 8238, 1>>, <<8288, 8292, 1>>,
    <<8294, 8303, 1>>, <<8305, 8305, 1>>, <<8319, 8319, 1>>,
    <<8336, 8348, 1>>, <<8400, 8432, 1>>, <<11388, 11389, 1>>,
    <<11503, 11505, 1>>, <<11631, 11631, 1>>, <<11647, 11647, 1>>,
    <<11744, 11775, 1>>, <<11823, 11823, 1>>, <<12293, 12293, 1>>,
    <<12330, 12333, 1>>, <<12337, 12341, 1>>, <<12347, 12347, 1>>,
    <<12441, 12446, 1>>, <<12540, 12542, 1>>, <<40981, 40981, 1>>,
    <<42232, 42237, 1>>, <<42508, 42508, 1>>, <<42607, 42610, 1>>,
    <<42612, 42621, 1>>, <<42623, 42623, 1>>, <<42652, 42655, 1>>,
    <<42736, 42737, 1>>, <<42752, 42785, 1>>, <<42864, 42864, 1>>,
    <<42888, 42890, 1>>, <<42994, 42996, 1>>, <<43000, 43001, 1>>,
    <<43010, 43010, 1>>, <<43014, 43014, 1>>, <<43019, 43019, 1>>,
    <<43045, 43046, 1>>, <<43052, 43052, 1>>, <<43204, 43205, 1>>,
    <<43232, 43249, 1>>, <<43263, 43263, 1>>, <<43302, 43309, 1>>,
    <<43335, 43345, 1>>, <<43392, 43394, 1>>, <<43443, 43443, 1>>,
    <<43446, 43449, 1>>, <<43452, 43453, 1>>, <<43471, 43471, 1>>,
    <<43493, 43494, 1>>, <<43561, 43566, 1>>, <<43569, 43570, 1>>,
    <<43573, 43574, 1>>, <<43587, 43587, 1>>, <<43596, 43596, 1>>,
    <<43632, 43632, 1>>, <<43644, 43644, 1>>, <<43696, 43698, 2>>,
    <<43699, 43700, 1>>, <<43703, 43704, 1>>, <<43710, 43711, 1>>,
    <<43713, 43713, 1>>, <<43741, 43741, 1>>, <<43756, 43757, 1>>,
    <<43763, 43764, 1>>, <<43766, 43766, 1>>, <<43867, 43871, 1>>,
    <<43881, 43883, 1>>, <<44005, 44005, 1>>, <<44008, 44008, 1>>,
    <<44013, 44013, 1>>, <<64286, 64286, 1>>, <<64434, 64450, 1>>,
    <<65024, 65039, 1>>, <<65043, 65043, 1>>, <<65056, 65071, 1>>,
    <<65106, 65106, 1>>, <<65109, 65109, 1>>, <<65279, 65279, 1>>,
    <<65287, 65287, 1>>, <<65294, 65294, 1>>, <<65306, 65306, 1>>,
    <<65342, 65344, 2>>, <<65392, 65392, 1>>, <<65438, 65439, 1>>,
    <<65507, 65507, 1>>, <<65529, 65531, 1>>, <<66045, 66045, 1>>,
    <<66272, 66272, 1>>, <<66422, 66426, 1>>, <<67456, 67461, 1>>,
    <<67463, 67504, 1>>, <<67506, 67514, 1>>, <<68097, 68099, 1>>,
    <<68101, 68102, 1>>, <<68108, 68111, 1>>, <<68152, 68154, 1>>,
    <<68159, 68159, 1>>, <<68325, 68326, 1>>, <<68900, 68903, 1>>,
    <<69291, 69292, 1>>, <<69446, 69456, 1>>, <<69506, 69509, 1>>,
    <<69633, 69633, 1>>, <<69688, 69702, 1>>, <<69744, 69744, 1>>,
    <<69747, 69748, 1>>, <<69759, 69761, 1>>, <<69811, 69814, 1>>,
    <<69817, 69818, 1>>, <<69821, 69821, 1>>, <<69826, 69826, 1>>,
    <<69837, 69837, 1>>, <<69888, 69890, 1>>, <<69927, 69931, 1>>,
    <<69933, 69940, 1>>, <<70003, 70003, 1>>, <<70016, 70017, 1>>,
    <<70070, 70078, 1>>, <<70089, 70092, 1>>, <<70095, 70095, 1>>,
    <<70191, 70193, 1>>, <<70196, 70198, 2>>, <<70199, 70199, 1>>,
    <<70206, 70206, 1>>, <<70367, 70367, 1>>, <<70371, 70378, 1>>,
    <<70400, 70401, 1>>, <<70459, 70460, 1>>, <<70464, 70464, 1>>,
    <<70502, 70508, 1>>, <<70512, 70516, 1>>, <<70712, 70719, 1>>,
    <<70722, 70724, 1>>, <<70726, 70726, 1>>, <<70750, 70750, 1>>,
    <<70835, 70840, 1>>, <<70842, 70842, 1>>, <<70847, 70848, 1>>,
    <<70850, 70851, 1>>, <<71090, 71093, 1>>, <<71100, 71101, 1>>,
    <<71103, 71104, 1>>, <<71132, 71133, 1>>, <<71219, 71226, 1>>,
    <<71229, 71231, 2>>, <<71232, 71232, 1>>, <<71339, 71341, 2>>,
    <<71344, 71349, 1>>, <<71351, 71351, 1>>, <<71453, 71455, 1>>,
    <<71458, 71461, 1>>, <<71463, 71467, 1>>, <<71727, 71735, 1>>,
    <<71737, 71738, 1>>, <<71995, 71996, 1>>, <<71998, 71998, 1>>,
    <<72003, 72003, 1>>, <<72148, 72151, 1>>, <<72154, 72155, 1>>,
    <<72160, 72160, 1>>, <<72193, 72202, 1>>, <<72243, 72248, 1>>,
    <<72251, 72254, 1>>, <<72263, 72263, 1>>, <<72273, 72278, 1>>,
    <<72281, 72283, 1>>, <<72330, 72342, 1>>, <<72344, 72345, 1>>,
    <<72752, 72758, 1>>, <<72760, 72765, 1>>, <<72767, 72767, 1>>,
    <<72850, 72871, 1>>, <<72874, 72880, 1>>, <<72882, 72883, 1>>,
    <<72885, 72886, 1>>, <<73009, 73014, 1>>, <<73018, 73020, 2>>,
    <<73021, 73023, 2>>, <<73024, 73029, 1>>, <<73031, 73031, 1>>,
    <<73104, 73105, 1>>, <<73109, 73111, 2>>, <<73459, 73460, 1>>,
    <<78896, 78904, 1>>, <<92912, 92916, 1>>, <<92976, 92982, 1>>,
    <<92992, 92995, 1>>, <<94031, 94031, 1>>, <<94095, 94111, 1>>,
    <<94176, 94177, 1>>, <<94179, 94180, 1>>, <<110576, 110579, 1>>,
    <<110581, 110587, 1>>, <<110589, 110590, 1>>, <<113821, 113822, 1>>,
    <<113824, 113827, 1>>, <<118528, 118573, 1>>, <<118576, 118598, 1>>,
    <<119143, 119145, 1>>, <<119155, 119170, 1>>, <<119173, 119179, 1>>,
    <<119210, 119213, 1>>, <<119362, 119364, 1>>, <<121344, 121398, 1>>,
    <<121403, 121452, 1>>, <<121461, 121461, 1>>, <<121476, 121476, 1>>,
    <<121499, 121503, 1>>, <<121505, 121519, 1>>, <<122880, 122886, 1>>,
    <<122888, 122904, 1>>, <<122907, 122913, 1>>, <<122915, 122916, 1>>,
    <<122918, 122922, 1>>, <<123184, 123197, 1>>, <<123566, 123566, 1>>,
    <<123628, 123631, 1>>, <<125136, 125142, 1>>, <<125252, 125259, 1>>,
    <<127995, 127999, 1>>, <<917505, 917505, 1>>, <<917536, 917631, 1>>,
    <<917760, 917999, 1>>}

\* ASCII and the Cyrillic letters U+0400..U+045F are answered directly, as
\* UpperRuns and LowerRuns have them
isupper(c) ==
    IF c < 128 THEN c \in 65..90
    ELSE IF c \in 1024..1119 THEN c <= 1071
    ELSE InRuns(c, UpperRuns)

\* lower() of one character away from any context; U+0130 alone becomes two
\* code points
lower_char(c) ==
    IF c < 128 THEN (IF c \in 65..90 THEN <<c + 32>> ELSE <<c>>)
    ELSE IF c \in 1024..1119
        THEN (IF c <= 1039 THEN <<c + 80>>
              ELSE IF c <= 1071 THEN <<c + 32>> ELSE <<c>>)
    ELSE IF c = 304 THEN <<105, 775>>
    ELSE LET rs == {r \in LowerRuns :
                       c >= r[1] /\ c <= r[2] /\ (c - r[1]) % r[3] = 0}
         IN IF rs = {} THEN <<c>>
            ELSE <<c + (CHOOSE r \in rs : TRUE)[4]>>

\* whether the capital sigma at s[k] is in the Final_Sigma context: a cased
\* letter before it and none after it, case-ignorable characters skipped
final_sigma(s, k) ==
    LET before == {j \in 1..(k - 1) : ~InRuns(s[j], CaseIgnorableRuns)}
        after == {j \in (k + 1)..Len(s) : ~InRuns(s[j], CaseIgnorableRuns)}
        last == CHOOSE j \in before : \A m \in before : m <= j
        first == CHOOSE j \in after : \A m \in after : j <= m
    IN /\ before # {}
       /\ InRuns(s[last], CasedRuns)
       /\ after = {} \/ ~InRuns(s[first], CasedRuns)

RECURSIVE lower_from(_, _)
\* the characters of s from s[k] on, lowercased
lower_from(s, k) ==
    IF k > Len(s) THEN <<>>
    ELSE (IF s[k] = 931
          THEN (IF final_sigma(s, k) THEN <<962>> ELSE <<963>>)
          ELSE lower_char(s[k]))
         \o lower_from(s, k + 1)

lower(s) == lower_from(s, 1)

(***************************************************************************)
(* Python indexing and slicing of a str.                                   *)
(***************************************************************************)
InRange(word, i) == i >= -Len(word) /\ i < Len(word)
\* word[i], for i in range
At(word, i) == IF i >= 0 THEN word[i + 1] ELSE word[Len(word) + i + 1]
\* word[i:], for i >= 0
SliceFrom(word, i) == SubSeq(word, i + 1, Len(word))
\* word[:i], for i >= 0
SliceTo(word, i) == SubSeq(word, 1, IF i < Len(word) THEN i ELSE Len(word))

(***************************************************************************)
(* The class constants.                                                    *)
(***************************************************************************)
_vocals_rus == {cyr.a, cyr.e, cyr.yeru, cyr.u, cyr.o, cyr.ya, cyr.ie, cyr.io,
                cyr.yu, cyr.i}

_translit_table ==
    (CYR.a :> <<LAT.a>>) @@ (cyr.a :> <<lat.a>>) @@
    (CYR.be :> <<LAT.b>>) @@ (cyr.be :> <<lat.b>>) @@
    (CYR.ve :> <<LAT.v>>) @@ (cyr.ve :> <<lat.v>>) @@
    (CYR.ge :> <<LAT.g>>) @@ (cyr.ge :> <<lat.g>>) @@
    (CYR.de :> <<LAT.d>>) @@ (cyr.de :> <<lat.d>>) @@
    (CYR.zhe :> <<LAT.zcaron>>) @@ (cyr.zhe :> <<lat.zcaron>>) @@
    (CYR.ze :> <<LAT.z>>) @@ (cyr.ze :> <<lat.z>>) @@
    (CYR.ka :> <<LAT.k>>) @@ (cyr.ka :> <<lat.k>>) @@
    (CYR.el :> <<LAT.l>>) @@ (cyr.el :> <<lat.l>>) @@
    (CYR.em :> <<LAT.m>>) @@ (cyr.em :> <<lat.m>>) @@
    (CYR.en :> <<LAT.n>>) @@ (cyr.en :> <<lat.n>>) @@
    (CYR.o :> <<LAT.o>>) @@ (cyr.o :> <<lat.o>>) @@
    (CYR.pe :> <<LAT.p>>) @@ (cyr.pe :> <<lat.p>>) @@
    (CYR.er :> <<LAT.r>>) @@ (cyr.er :> <<lat.r>>) @@
    (CYR.te :> <<LAT.t>>) @@ (cyr.te :> <<lat.t>>) @@
    (CYR.u :> <<LAT.u>>) @@ (cyr.u :> <<lat.u>>) @@
    (CYR.ef :> <<LAT.f>>) @@ (cyr.ef :> <<lat.f>>) @@
    (CYR.tse :> <<LAT.t, lat.s>>) @@ (cyr.tse :> <<lat.t, lat.s>>) @@
    (CYR.che :> <<LAT.t, lat.scaron>>) @@ (cyr.che :> <<lat.t, lat.scaron>>) @@
    (CYR.sha :> <<LAT.scaron>>) @@ (cyr.sha :> <<lat.scaron>>) @@
    (CYR.shcha :> <<LAT.scaron, lat.t, lat.scaron>>) @@
    (cyr.shcha :> <<lat.scaron, lat.t, lat.scaron>>) @@
    (CYR.yeru :> <<lat.otilde>>) @@ (cyr.yeru :> <<lat.otilde>>) @@
    (CYR.hard :> <<>>) @@ (cyr.hard :> <<>>) @@
    (CYR.e :> <<LAT.e>>) @@ (cyr.e :> <<lat.e>>) @@
    (CYR.yu :> <<LAT.j, lat.u>>) @@ (cyr.yu :> <<lat.j, lat.u>>) @@
    (CYR.ya :> <<LAT.j, lat.a>>) @@ (cyr.ya :> <<lat.j, lat.a>>)

_chars_with_rules ==
    (CYR.ie :> <<LAT.e>>) @@ (cyr.ie :> <<lat.e>>) @@
    (CYR.io :> <<LAT.j, lat.o>>) @@ (cyr.io :> <<lat.j, lat.o>>) @@
    (CYR.i :> <<LAT.i>>) @@ (cyr.i :> <<lat.i>>) @@
    (CYR.j :> <<LAT.i>>) @@ (cyr.j :> <<lat.i>>) @@
    (CYR.ha :> <<LAT.h>>) @@ (cyr.ha :> <<lat.h>>) @@
    (CYR.soft :> <<>>) @@ (cyr.soft :> <<>>) @@
    (CYR.es :> <<LAT.s>>) @@ (cyr.es :> <<lat.s>>)

\* _check_if_upper_and_return changed: the candidate is never lowercased
_check_if_upper_and_return_as_written(char_in_index, char) == char

(***************************************************************************)
(* _check_if_upper_and_return: the candidate as written when the source    *)
(* character is uppercase, lowercased otherwise.                           *)
(***************************************************************************)
_check_if_upper_and_return(char_in_index, char) ==
    IF isupper(char_in_index) THEN char ELSE lower(char)

(***************************************************************************)
(* _check_doublechar_rules: the word-final collapse.  finditer runs over   *)
(* word.lower(); its spans are then used as indices into word itself.      *)
(***************************************************************************)
\* start offsets of the matches of the two-character pattern in lowered
finditer_ij(lowered) ==
    {p \in 0..(Len(lowered) - 2) :
        At(lowered, p) = cyr.i /\ At(lowered, p + 1) = cyr.j}

\* _check_doublechar_rules changed: the length test is > 2 instead of > 3
_check_doublechar_rules_from_3(word) ==
    IF Len(word) > 2
    THEN LET hits == {p \in finditer_ij(lower(word)) :
                         (p + 2) - 1 = Len(word) - 1}
         IN IF hits = {} THEN word
            ELSE LET p == CHOOSE q \in hits : TRUE
                     new_char == _check_if_upper_and_return(At(word, p),
                                                            <<LAT.i>>)
                 IN SliceTo(SliceTo(word, p + 1), p) \o new_char
    ELSE word

_check_doublechar_rules(word) ==
    IF Len(word) > 3
    THEN LET hits == {p \in finditer_ij(lower(word)) :
                         (p + 2) - 1 = Len(word) - 1}
         IN IF hits = {} THEN word
            ELSE LET p == CHOOSE q \in hits : TRUE
                     new_char == _check_if_upper_and_return(At(word, p),
                                                            <<LAT.i>>)
                 IN SliceTo(SliceTo(word, p + 1), p) \o new_char
    ELSE word

(***************************************************************************)
(* The contextual rules.  Each follows the source's order of evaluation,   *)
(* so that an index out of range yields IndexError where Python raises it. *)
(***************************************************************************)
_rules_for_s(word, char, char_index) ==
    LET doubled == _check_if_upper_and_return(char, <<LAT.s, lat.s>>)
        single == _chars_with_rules[char]
    IN IF char_index > 0
       THEN IF ~InRange(word, char_index - 1) THEN IndexError
            ELSE IF At(word, char_index - 1) \in _vocals_rus
            THEN IF Len(word) = 2 THEN doubled
                 ELSE IF Len(SliceFrom(word, char_index + 1)) > 0
                         /\ At(word, char_index + 1) \in _vocals_rus
                      THEN doubled
                 ELSE IF ~InRange(word, -1) THEN IndexError
                 ELSE IF At(word, -1) = char THEN doubled
                 ELSE single
            ELSE single
       ELSE single

\* _rules_for_soft changed: the iotated vowels are not excluded
_rules_for_soft_any_vowel(word, char, char_index) ==
    IF Len(SliceFrom(word, char_index + 1)) > 0
       /\ At(word, char_index + 1) \in _vocals_rus
    THEN _check_if_upper_and_return(char, <<LAT.j>>)
    ELSE _chars_with_rules[char]

_rules_for_soft(word, char, char_index) ==
    IF Len(SliceFrom(word, char_index + 1)) > 0
       /\ At(word, char_index + 1) \notin
              {cyr.ie, CYR.ie, cyr.io, CYR.io, cyr.yu, CYR.yu, cyr.ya, CYR.ya}
       /\ At(word, char_index + 1) \in _vocals_rus
    THEN _check_if_upper_and_return(char, <<LAT.j>>)
    ELSE _chars_with_rules[char]

_rules_for_e(word, char, char_index) ==
    IF char_index = 0
    THEN _check_if_upper_and_return(char, <<LAT.j, lat.e>>)
    ELSE IF ~InRange(word, char_index - 1) THEN IndexError
    ELSE IF At(word, char_index - 1) \in _vocals_rus
            \/ At(word, char_index - 1) \in
                   {CYR.soft, cyr.soft, CYR.hard, cyr.hard}
         THEN _check_if_upper_and_return(char, <<LAT.j, lat.e>>)
    ELSE _chars_with_rules[char]

_rules_for_jo(word, char, char_index) ==
    IF char_index # 0
    THEN IF ~InRange(word, char_index - 1) THEN IndexError
         ELSE IF At(word, char_index - 1) \in
                     {CYR.zhe, cyr.zhe, CYR.che, cyr.che, CYR.sha, cyr.sha,
                      CYR.shcha, cyr.shcha}
              THEN _check_if_upper_and_return(char, <<LAT.o>>)
         ELSE _chars_with_rules[char]
    ELSE _chars_with_rules[char]

\* _rules_for_i changed: the test len(word) > 1 is missing
_rules_for_i_unguarded(word, char, char_index) ==
    IF char_index = 0 /\ ~InRange(word, char_index + 1) THEN IndexError
    ELSE IF char_index = 0 /\ At(word, char_index + 1) \in _vocals_rus
         THEN _check_if_upper_and_return(char, <<LAT.j>>)
    ELSE _chars_with_rules[char]

_rules_for_i(word, char, char_index) ==
    IF Len(word) > 1
    THEN IF char_index = 0 /\ ~InRange(word, char_index + 1) THEN IndexError
         ELSE IF char_index = 0 /\ At(word, char_index + 1) \in _vocals_rus
              THEN _check_if_upper_and_return(char, <<LAT.j>>)
         ELSE _chars_with_rules[char]
    ELSE _chars_with_rules[char]

_rules_for_h(word, char, char_index) ==
    LET doubled == _check_if_upper_and_return(char, <<LAT.h, lat.h>>)
        single == _chars_with_rules[char]
    IN IF char_index > 0
       THEN IF ~InRange(word, char_index - 1) THEN IndexError
            ELSE IF At(word, char_index - 1) \in _vocals_rus
            THEN IF Len(word) = 2 THEN doubled
                 ELSE IF Len(SliceFrom(word, char_index + 1)) > 0
                         /\ At(word, char_index + 1) \in _vocals_rus
                      THEN doubled
                 ELSE IF ~InRange(word, -1) THEN IndexError
                 ELSE IF At(word, -1) = char THEN doubled
                 ELSE single
            ELSE single
       ELSE single

(***************************************************************************)
(* _check_char_rules: the dispatcher.  A character that matches no branch  *)
(* falls off the end of the function, which returns None.                  *)
(***************************************************************************)
_check_char_rules(word, char, char_index) ==
    IF char \in {CYR.ie, cyr.ie} THEN _rules_for_e(word, char, char_index)
    ELSE IF char \in {CYR.io, cyr.io} THEN _rules_for_jo(word, char, char_index)
    ELSE IF char \in {CYR.i, cyr.i, CYR.j, cyr.j}
        THEN _rules_for_i(word, char, char_index)
    ELSE IF char \in {CYR.ha, cyr.ha} THEN _rules_for_h(word, char, char_index)
    ELSE IF char \in {CYR.soft, cyr.soft}
        THEN _rules_for_soft(word, char, char_index)
    ELSE IF char \in {CYR.es, cyr.es} THEN _rules_for_s(word, char, char_index)
    ELSE PyNone

\* transchar_of changed: the final else is missing, transchar stays ''
transchar_of_no_else(word, char, char_index) ==
    IF char \in DOMAIN _translit_table THEN _translit_table[char]
    ELSE IF char \in DOMAIN _chars_with_rules
        THEN _check_char_rules(word, char, char_index)
    ELSE <<>>

\* the body of the loop over the characters of a word (lines 39-46)
transchar_of(word, char, char_index) ==
    IF char \in DOMAIN _translit_table THEN _translit_table[char]
    ELSE IF char \in DOMAIN _chars_with_rules
        THEN _check_char_rules(word, char, char_index)
    ELSE <<char>>

(***************************************************************************)
(* str.split(' ') and ' '.join(list).                                      *)
(***************************************************************************)
RECURSIVE split(_)
split(s) ==
    IF s = <<>> THEN << <<>> >>
    ELSE LET rest == split(Tail(s))
         IN IF <<Head(s)>> = SPACE THEN << <<>> >> \o rest
            ELSE << <<Head(s)>> \o Head(rest) >> \o Tail(rest)

\* what sentence.split(' ') returns at line 34 when it returns
split_entry(entry) == IF IsStr(entry) THEN split(entry) ELSE split(Tail(entry))

RECURSIVE join_nonempty(_)
\* join changed: empty words are left out, as ' '.join(w for w in words if w)
join_nonempty(words) ==
    IF words = <<>> THEN <<>>
    ELSE LET rest == join_nonempty(Tail(words))
         IN IF Head(words) = <<>> THEN rest
            ELSE IF rest = <<>> THEN Head(words)
            ELSE Head(words) \o SPACE \o rest

RECURSIVE join(_)
join(words) ==
    IF words = <<>> THEN <<>>
    ELSE IF Len(words) = 1 THEN Head(words)
    ELSE Head(words) \o SPACE \o join(Tail(words))

(***************************************************************************)
(* Lines 33-50 read as functions: what the loops compute for one word and  *)
(* for one sentence.                                                       *)
(***************************************************************************)
RECURSIVE convert_chars(_, _)
\* the characters of word from index i on, resolved and concatenated
convert_chars(word, i) ==
    IF i >= Len(word) THEN <<>>
    ELSE transchar_of(word, At(word, i), i) \o convert_chars(word, i + 1)

convert_word(w) == convert_chars(_check_doublechar_rules(w), 0)

convert_sentence(s) ==
    LET ws == split_entry(s)
    IN join([k \in 1..Len(ws) |-> convert_word(ws[k])])

(***************************************************************************)
(* Bounds of the inputs.                                                   *)
(***************************************************************************)
\* Spec: at most this many entries in the list passed to the call
MaxSentences == 2
\* Spec: at most this many characters in all the sentences of a call
MaxChars == 3
\* SpecWords: longest word over the rule alphabets
MaxWordLen == 3
\* SpecWords: longest word over the collapse alphabet
MaxCollapseLen == 4

RECURSIVE StrsOver(_, _)
\* the strings over alphabet A of length at most n
StrsOver(A, n) ==
    IF n = 0 THEN {<<>>}
    ELSE LET shorter == StrsOver(A, n - 1)
         IN shorter \cup {Append(t, c) : t \in {u \in shorter : Len(u) = n - 1},
                                         c \in A}

RECURSIVE ListsOver(_, _, _)
\* the entries that are not strs: one without split, a bytes, and an object
\* whose split(' ') returns two words
NonStrEntries == {NonString, BytesLike, Duck(<<cyr.a, cyr.es, 32, cyr.ha>>)}

\* the lists of at most n entries, each a string over A or not a str, the
\* strings holding at most b characters together
ListsOver(A, n, b) ==
    IF n = 0 THEN {<<>>}
    ELSE {<<>>}
         \cup UNION {{<<e>> \o r : r \in ListsOver(A, n - 1, b - Len(e))} :
                        e \in StrsOver(A, b)}
         \cup {<<e>> \o r : e \in NonStrEntries, r \in ListsOver(A, n - 1, b)}

\* space, a Latin letter, a digit, a table letter and a letter with rules
ApiAlphabet == {32, lat.a, 49, cyr.a, cyr.es}

\* the argument of a call: None, or a list
ApiInputs ==
    {[is_list |-> FALSE, items |-> <<>>]}
    \cup {[is_list |-> TRUE, items |-> l] :
             l \in ListsOver(ApiAlphabet, MaxSentences, MaxChars)}

VARIABLES
    sentences,           \* the argument of __call__
    pc,                  \* where the call is
    outcome,             \* "running", "returned" or the exception raised
    result,              \* the list returned
    new_sentences,       \* line 31
    sentence_index,      \* how many entries the outer loop has taken
    sentence,            \* lines 32, 34: the current entry, then its split
    converted_sentence,  \* line 33
    word_index,          \* how many words the loop at line 35 has taken
    raw_word,            \* the loop variable at line 35, before line 36
    word,                \* line 36
    converted_word,      \* line 37
    char_index,          \* line 38 (-1: not bound yet)
    transchar,           \* lines 39-46 (empty: not bound yet)
    char_iter            \* line 38: how many characters enumerate has given

vars == <<sentences, pc, outcome, result, new_sentences, sentence_index,
          sentence, converted_sentence, word_index, raw_word, word,
          converted_word, char_index, transchar, char_iter>>

InitWith(inputs) ==
    /\ sentences \in inputs
    /\ pc = "call"
    /\ outcome = "running"
    /\ result = <<>>
    /\ new_sentences = <<>>
    /\ sentence_index = 0
    /\ sentence = <<>>
    /\ converted_sentence = <<>>
    /\ word_index = 0
    /\ raw_word = <<>>
    /\ word = <<>>
    /\ converted_word = <<>>
    /\ char_index = -1
    /\ transchar = <<>>
    /\ char_iter = 0

Init == InitWith(ApiInputs)

\* the call ends with an exception
Raise(exc) ==
    /\ pc' = "done"
    /\ outcome' = exc

(***************************************************************************)
(* __call__ and the start of _transliterate (lines 19-32): iterating over  *)
(* None raises TypeError.                                                  *)
(***************************************************************************)
Call ==
    /\ pc = "call"
    /\ new_sentences' = <<>>
    /\ IF sentences.is_list
       THEN pc' = "for_sentence" /\ outcome' = outcome
       ELSE Raise("TypeError")
    /\ UNCHANGED <<sentences, result, sentence_index, sentence,
                   converted_sentence, word_index, raw_word, word,
                   converted_word, char_index, transchar,
                   char_iter>>

(***************************************************************************)
(* Lines 32-34: the outer loop takes the next entry and splits it.  An     *)
(* entry without a split method raises AttributeError, a bytes entry       *)
(* TypeError; any other entry is taken for what its split returns.  When   *)
(* split raises, sentence is still the entry the for statement bound.      *)
(***************************************************************************)
SplitSentence ==
    /\ pc = "for_sentence"
    /\ sentence_index < Len(sentences.items)
    /\ LET entry == sentences.items[sentence_index + 1]
       IN /\ sentence_index' = sentence_index + 1
          /\ converted_sentence' = <<>>
          /\ IF split_raises(entry) = "none"
             THEN /\ sentence' = split_entry(entry)
                  /\ word_index' = 0
                  /\ pc' = "for_word"
                  /\ outcome' = outcome
             ELSE /\ Raise(split_raises(entry))
                  /\ sentence' = entry
                  /\ UNCHANGED word_index
    /\ UNCHANGED <<sentences, result, new_sentences, raw_word, word,
                   converted_word, char_index, transchar,
                   char_iter>>

(***************************************************************************)
(* Lines 35-38: the loop over the words takes the next word, rewrites it   *)
(* with _check_doublechar_rules and starts to enumerate it.  char_index    *)
(* and transchar keep what the word before left in them.                   *)
(***************************************************************************)
CheckDoublechar ==
    /\ pc = "for_word"
    /\ word_index < Len(sentence)
    /\ word_index' = word_index + 1
    /\ raw_word' = sentence[word_index + 1]
    /\ word' = _check_doublechar_rules(sentence[word_index + 1])
    /\ converted_word' = <<>>
    /\ char_iter' = 0
    /\ pc' = "for_char"
    /\ UNCHANGED <<sentences, outcome, result, new_sentences, sentence_index,
                   sentence, converted_sentence, char_index, transchar>>

(***************************************************************************)
(* Lines 38-48: one character of the word.  Adding None to a str raises    *)
(* TypeError; an index out of range raises IndexError.                     *)
(***************************************************************************)
TranslitChar ==
    /\ pc = "for_char"
    /\ char_iter < Len(word)
    /\ LET i == char_iter
           t == transchar_of(word, At(word, i), i)
       IN /\ char_iter' = i + 1
          /\ char_index' = i
          /\ IF t = IndexError
             THEN /\ Raise("IndexError")
                  /\ transchar' = <<>>
                  /\ UNCHANGED converted_word
             ELSE IF t = PyNone
             THEN /\ Raise("TypeError")
                  /\ transchar' = t
                  /\ UNCHANGED converted_word
             ELSE /\ transchar' = t
                  /\ converted_word' = converted_word \o t
                  /\ UNCHANGED <<pc, outcome>>
    /\ UNCHANGED <<sentences, result, new_sentences, sentence_index, sentence,
                   converted_sentence, word_index, raw_word, word>>

\* line 49
AppendWord ==
    /\ pc = "for_char"
    /\ char_iter >= Len(word)
    /\ converted_sentence' = Append(converted_sentence, converted_word)
    /\ pc' = "for_word"
    /\ UNCHANGED <<sentences, outcome, result, new_sentences, sentence_index,
                   sentence, word_index, raw_word, word, converted_word,
                   char_index, transchar, char_iter>>

\* line 50
AppendSentence ==
    /\ pc = "for_word"
    /\ word_index >= Len(sentence)
    /\ new_sentences' = Append(new_sentences, join(converted_sentence))
    /\ pc' = "for_sentence"
    /\ UNCHANGED <<sentences, outcome, result, sentence_index, sentence,
                   converted_sentence, word_index, raw_word, word,
                   converted_word, char_index, transchar,
                   char_iter>>

\* line 52
Return ==
    /\ pc = "for_sentence"
    /\ sentence_index >= Len(sentences.items)
    /\ result' = new_sentences
    /\ outcome' = "returned"
    /\ pc' = "done"
    /\ UNCHANGED <<sentences, new_sentences, sentence_index, sentence,
                   converted_sentence, word_index, raw_word, word,
                   converted_word, char_index, transchar,
                   char_iter>>

Next ==
    \/ Call
    \/ SplitSentence
    \/ CheckDoublechar
    \/ TranslitChar
    \/ AppendWord
    \/ AppendSentence
    \/ Return

Spec == Init /\ [][Next]_vars

(***************************************************************************)
(* SpecWords: calls with one sentence of one word, the word drawn from     *)
(* three alphabets and from the words the specification and the demo name. *)
(***************************************************************************)
\* lowercase: every letter with rules, and the neighbours the rules name
LowerRuleAlphabet ==
    {cyr.ie, cyr.io, cyr.i, cyr.j, cyr.ha, cyr.soft, cyr.es,
     cyr.a, cyr.yu, cyr.ka, cyr.zhe, cyr.hard}

\* uppercase: every letter with rules, an uppercase vowel and neighbours
UpperRuleAlphabet ==
    {CYR.ie, CYR.io, CYR.i, CYR.j, CYR.ha, CYR.soft, CYR.es,
     CYR.a, cyr.a, cyr.ka, cyr.zhe, cyr.ie, cyr.es}

\* the letters of the collapse, a consonant, a letter with rules, and U+0130
CollapseAlphabet ==
    {cyr.i, cyr.j, CYR.i, CYR.j, cyr.ka, cyr.ha, LAT.idot}

\* the words of the specification's scenarios, each with its stated result
Scenarios == {
    <<<<CYR.es, cyr.ie, cyr.er, cyr.ge, cyr.ie, cyr.j>>,
      <<LAT.s, lat.e, lat.r, lat.g, lat.e, lat.i>>>>,
    <<<<CYR.de, cyr.ie, cyr.en, cyr.i, cyr.es>>,
      <<LAT.d, lat.e, lat.n, lat.i, lat.s, lat.s>>>>,
    <<<<CYR.ge, cyr.o, cyr.er, cyr.soft, cyr.ka, cyr.i, cyr.j>>,
      <<LAT.g, lat.o, lat.r, lat.k, lat.i>>>>,
    <<<<CYR.ve, cyr.i, cyr.j>>,
      <<LAT.v, lat.i, lat.i>>>>,
    <<<<CYR.en, cyr.o, cyr.ve, cyr.o, cyr.er, cyr.o, cyr.es, cyr.es, cyr.i,
        cyr.j, cyr.es, cyr.ka>>,
      <<LAT.n, lat.o, lat.v, lat.o, lat.r, lat.o, lat.s, lat.s, lat.i, lat.i,
        lat.s, lat.k>>>>,
    <<<<CYR.pe, cyr.o, cyr.de, cyr.hard, cyr.ie, cyr.ze, cyr.de, cyr.o,
        cyr.ve>>,
      <<LAT.p, lat.o, lat.d, lat.j, lat.e, lat.z, lat.d, lat.o, lat.v>>>>}

\* line 257 of the source: the demo's word and the result it states
DemoIsaev == <<CYR.i, cyr.es, cyr.a, cyr.ie, cyr.ve>>
DemoIssajev == <<LAT.i, lat.s, lat.s, lat.a, lat.j, lat.e, lat.v>>

WordInputs ==
    StrsOver(LowerRuleAlphabet, MaxWordLen)
    \cup StrsOver(UpperRuleAlphabet, MaxWordLen)
    \cup StrsOver(CollapseAlphabet, MaxCollapseLen)
    \cup {sc[1] : sc \in Scenarios}
    \cup {DemoIsaev}

InitWords ==
    InitWith({[is_list |-> TRUE, items |-> <<w>>] : w \in WordInputs})

SpecWords == InitWords /\ [][Next]_vars

(***************************************************************************)
(* Vocabulary of the properties.                                           *)
(***************************************************************************)
\* the call has returned its list
Returned == pc = "done" /\ outcome = "returned"
\* the character at char_index of word has just been resolved to transchar
Resolved == pc = "for_char" /\ char_iter > 0
\* the character just resolved
CurChar == At(word, char_index)
\* the number of pieces s.split(' ') has: one more than the spaces of s
NumPieces(s) == 1 + Cardinality({k \in 1..Len(s) : s[k] = 32})
\* the Unicode blocks Cyrillic and Cyrillic Supplement
IsCyrillic(c) == c \in 1024..1327
NoCyrillic(s) == \A k \in 1..Len(s) : ~IsCyrillic(s[k])
IsLowerLetter(c) == c \in 97..122 \/ c \in 1072..1119
AllLower(w) == \A k \in 1..Len(w) : IsLowerLetter(w[k])
\* a vowel in either case
IsVowelAnyCase(c) == c \in _vocals_rus \/ lower_char(c)[1] \in _vocals_rus
\* the entry is not a str
NotAStr(e) == e # <<>> /\ e[1] < 0
\* the argument is None or holds an entry that is not a str
Malformed(arg) ==
    \/ ~arg.is_list
    \/ \E k \in 1..Len(arg.items) : NotAStr(arg.items[k])
\* the places of the entries whose split does not return: those without a
\* split method and the bytes
Unsplittable(arg) ==
    {k \in 1..Len(arg.items) : arg.items[k] \in {NonString, BytesLike}}

(***************************************************************************)
(* C1.  A call that returns gives back as many sentences as it was given,  *)
(* in order, each string's result the conversion of that string alone,     *)
(* splitting on the space into as many pieces as the string.               *)
(***************************************************************************)
C1_SameCounts ==
    Returned =>
        /\ Len(result) = Len(sentences.items)
        /\ \A k \in 1..Len(result) :
              ~NotAStr(sentences.items[k]) =>
                  /\ NumPieces(result[k]) = NumPieces(sentences.items[k])
                  /\ result[k] = convert_sentence(sentences.items[k])

\* two sentences returned, one of them with an empty word between two spaces
C1_Witness ==
    /\ Returned
    /\ Len(result) = 2
    /\ \E k \in 1..2 : /\ Len(sentences.items[k]) = 3
                       /\ sentences.items[k][1] = 32
                       /\ sentences.items[k][2] = 32
                       /\ sentences.items[k][3] = cyr.es
                       /\ result[k] = <<32, 32, lat.s>>

(***************************************************************************)
(* C2.  A sentence with no Cyrillic character comes back unchanged, and    *)
(* converting the result again changes nothing.                            *)
(***************************************************************************)
C2_PassThrough ==
    Returned =>
        \A k \in 1..Len(sentences.items) :
            (~NotAStr(sentences.items[k]) /\ NoCyrillic(sentences.items[k])) =>
                /\ result[k] = sentences.items[k]
                /\ convert_sentence(result[k]) = result[k]

\* a Latin letter, a space and a digit came back as given
C2_Witness ==
    /\ Returned
    /\ Len(result) >= 1
    /\ sentences.items[1] = <<lat.a, 32, 49>>
    /\ result[1] = <<lat.a, 32, 49>>

(***************************************************************************)
(* C3.  A call on a list of strings raises nothing: no index is out of     *)
(* range, and every letter with rules is resolved to a string, not None.   *)
(***************************************************************************)
C3_NoException ==
    /\ outcome \in {"running", "returned"}
    /\ pc = "done" => outcome = "returned"
    /\ Resolved => IsStr(transchar)
    /\ (Resolved /\ CurChar \in DOMAIN _chars_with_rules) =>
           transchar = _check_char_rules(word, CurChar, char_index)

\* a one-letter word whose letter has rules: first and last at once
C3_Witness ==
    /\ Resolved
    /\ word = <<CYR.j>>
    /\ transchar = <<LAT.i>>

(***************************************************************************)
(* C4 as stated.  A malformed argument is refused by a check at entry:     *)
(* the call fails before any sentence has been converted.                  *)
(***************************************************************************)
C4_RejectedAtEntry ==
    (pc = "done" /\ Malformed(sentences)) =>
        /\ outcome # "returned"
        /\ new_sentences = <<>>

(***************************************************************************)
(* C4 amended.  A call on a list of strs never fails, and there is no      *)
(* check at entry: None raises TypeError as the loop starts; an entry      *)
(* without a split method raises AttributeError, and a bytes entry         *)
(* TypeError, when the loop reaches it, after every entry before it has    *)
(* been converted; an entry that is not a str but whose split returns strs *)
(* is not refused at all, it is converted like a sentence.                 *)
(***************************************************************************)
C4_FailsWhereMalformed ==
    pc = "done" =>
        /\ ~Malformed(sentences) => outcome = "returned"
        /\ ~sentences.is_list =>
               outcome = "TypeError" /\ new_sentences = <<>>
        /\ sentences.is_list =>
               LET bad == Unsplittable(sentences)
                   f == CHOOSE k \in bad : \A m \in bad : k <= m
               IN /\ bad = {} =>
                         /\ outcome = "returned"
                         /\ Len(new_sentences) = Len(sentences.items)
                  /\ bad # {} =>
                         /\ outcome = IF sentences.items[f] = NonString
                                      THEN "AttributeError" ELSE "TypeError"
                         /\ Len(new_sentences) = f - 1
                  /\ \A k \in 1..Len(new_sentences) :
                         new_sentences[k] =
                             convert_sentence(sentences.items[k])

\* the call failed on its second entry, with the first already converted
C4_Witness ==
    /\ pc = "done"
    /\ outcome = "AttributeError"
    /\ sentences.items = <<<<cyr.a, cyr.es>>, NonString>>
    /\ new_sentences = <<<<lat.a, lat.s, lat.s>>>>

(***************************************************************************)
(* C5 as stated.  A letter with rules resolves to a string whose first     *)
(* letter is uppercase exactly when the letter is, the rest lowercase.     *)
(***************************************************************************)
C5_CaseOfFirstLetter ==
    (Resolved /\ CurChar \in DOMAIN _chars_with_rules) =>
        /\ isupper(CurChar) <=> (transchar # <<>> /\ isupper(transchar[1]))
        /\ \A k \in 2..Len(transchar) : IsLowerLetter(transchar[k])

(***************************************************************************)
(* C5 amended.  The same for every resolved string that is not empty; the  *)
(* empty string, which has no first letter, is the result only for the     *)
(* soft sign, in either case.                                              *)
(***************************************************************************)
C5_CaseWhenNotEmpty ==
    (Resolved /\ CurChar \in DOMAIN _chars_with_rules) =>
        /\ transchar # <<>> =>
               /\ isupper(CurChar) <=> isupper(transchar[1])
               /\ ~isupper(CurChar) <=> IsLowerLetter(transchar[1])
               /\ \A k \in 2..Len(transchar) : IsLowerLetter(transchar[k])
        /\ transchar = <<>> => CurChar \in {CYR.soft, cyr.soft}

\* an uppercase letter doubled after a vowel: uppercase, then lowercase
C5_Witness ==
    /\ Resolved
    /\ word = <<cyr.a, CYR.es, cyr.a>>
    /\ char_index = 1
    /\ transchar = <<LAT.s, lat.s>>

(***************************************************************************)
(* C6 as stated.  An uppercase vowel beside a letter with rules counts as  *)
(* a vowel: the demo's word comes out as the demo says, and the letter ie  *)
(* after an uppercase vowel is resolved to "je".                           *)
(***************************************************************************)
C6_VowelsInEitherCase ==
    /\ (Returned /\ sentences.items = <<DemoIsaev>>) =>
           result = <<DemoIssajev>>
    /\ (Resolved /\ CurChar = cyr.ie /\ char_index > 0
          /\ isupper(At(word, char_index - 1))
          /\ IsVowelAnyCase(At(word, char_index - 1))) =>
           transchar = <<lat.j, lat.e>>

(***************************************************************************)
(* C7.  Each scenario of the specification, given as a sentence of one     *)
(* word, comes back as the result the specification states.                *)
(***************************************************************************)
C7_Scenarios ==
    \A sc \in Scenarios :
        (Returned /\ sentences.items = <<sc[1]>>) => result = <<sc[2]>>

\* the scenario with both the collapse and a dropped soft sign has returned
C7_Witness ==
    /\ Returned
    /\ sentences.items =
           <<<<CYR.ge, cyr.o, cyr.er, cyr.soft, cyr.ka, cyr.i, cyr.j>>>>
    /\ result = <<<<LAT.g, lat.o, lat.r, lat.k, lat.i>>>>

(***************************************************************************)
(* C8 as stated.  In a lowercase word the letters ha and es are doubled    *)
(* exactly when the index is past 0, the letter before is a vowel, and     *)
(* the word has two letters or the next letter is a vowel or the index is  *)
(* the last.                                                               *)
(***************************************************************************)
C8_DoubledExactlyWhen ==
    (Resolved /\ AllLower(word) /\ CurChar \in {cyr.ha, cyr.es}) =>
        LET i == char_index
            doubling ==
                /\ i > 0
                /\ At(word, i - 1) \in _vocals_rus
                /\ \/ Len(word) = 2
                   \/ i + 1 < Len(word) /\ At(word, i + 1) \in _vocals_rus
                   \/ i = Len(word) - 1
            one == IF CurChar = cyr.ha THEN <<lat.h>> ELSE <<lat.s>>
        IN transchar = IF doubling THEN one \o one ELSE one

(***************************************************************************)
(* C9 as stated.  The word the rules see is the word given, unless that    *)
(* has more than 3 letters and ends, in either case, with i and short i:   *)
(* then it is the word without its last two letters, followed by a Latin   *)
(* "I" when the i was uppercase and "i" otherwise.                         *)
(***************************************************************************)
C9_CollapseExactlyWhen ==
    pc = "for_char" =>
        LET n == Len(raw_word)
            ends == /\ n > 3
                    /\ raw_word[n - 1] \in {cyr.i, CYR.i}
                    /\ raw_word[n] \in {cyr.j, CYR.j}
        IN word = IF ends
                  THEN SubSeq(raw_word, 1, n - 2)
                       \o (IF raw_word[n - 1] = CYR.i THEN <<LAT.i>>
                           ELSE <<lat.i>>)
                  ELSE raw_word

(***************************************************************************)
(* C10.  In a lowercase word the letters ie, io, i, short i and the soft   *)
(* sign are resolved as the table of rules says.                           *)
(***************************************************************************)
C10_RuleTable ==
    (Resolved /\ AllLower(word)) =>
        LET i == char_index
            c == CurChar
            n == Len(word)
        IN /\ c = cyr.ie =>
                 transchar =
                     IF i = 0 \/ At(word, i - 1) \in _vocals_rus
                        \/ At(word, i - 1) \in {cyr.soft, cyr.hard}
                     THEN <<lat.j, lat.e>> ELSE <<lat.e>>
           /\ c = cyr.io =>
                 transchar =
                     IF i > 0 /\ At(word, i - 1) \in
                            {cyr.zhe, cyr.che, cyr.sha, cyr.shcha}
                     THEN <<lat.o>> ELSE <<lat.j, lat.o>>
           /\ c \in {cyr.i, cyr.j} =>
                 transchar =
                     IF i = 0 /\ n > 1 /\ At(word, 1) \in _vocals_rus
                     THEN <<lat.j>> ELSE <<lat.i>>
           /\ c = cyr.soft =>
                 transchar =
                     IF i + 1 < n /\ At(word, i + 1) \in _vocals_rus
                        /\ At(word, i + 1) \notin
                               {cyr.ie, cyr.io, cyr.yu, cyr.ya}
                     THEN <<lat.j>> ELSE <<>>

\* a soft sign before a vowel that is not iotated became "j"
C10_Witness ==
    /\ Resolved
    /\ word = <<cyr.ka, cyr.soft, cyr.i>>
    /\ char_index = 1
    /\ transchar = <<lat.j>>

====
